---- MODULE Spec2Model ----
(***************************************************************************)
(* A model of the RLN protocol primitives of zerokit                       *)
(* (rln/src/protocol.rs, rln/src/identity.rs).                             *)
(*                                                                         *)
(* The library is a set of functions over the BN254 scalar field Fr.  The  *)
(* model keeps the arithmetic of a prime field but over a small prime      *)
(* MODULUS, so that TLC can enumerate it.  The Poseidon hash, the SHA-256  *)
(* hash and the byte codecs of crate::utils are not part of the two source *)
(* files; they are modelled from the specification (fixed-width            *)
(* little-endian field elements, u64 length prefixes, opaque hashes).      *)
(*                                                                         *)
(* A call that panics (unwrap of None/Err, failed assert_eq!, slice out of *)
(* range) is an outcome of kind "panic": nothing is returned to the        *)
(* caller.  A Result is an outcome of kind "Ok" or "Err".                  *)
(***************************************************************************)
EXTENDS Integers, Sequences, FiniteSets, TLC

VARIABLES
    w1,      \* first RLNWitnessInput at hand
    w2,      \* second RLNWitnessInput at hand
    pv1,     \* proof_values_from_witness(w1), once computed
    pv2,     \* proof_values_from_witness(w2), once computed
    rec,     \* the last compute_id_secret call: its arguments and its outcome
    wire,    \* the bytes the last serializer call returned
    dec,     \* the last deserializer call: its input and its outcome
    cred,    \* the last derived identity credential
    prf,     \* the last prover call: its inputs and its outcome
    pc,      \* where each thread stands inside generate_proof
    mutex,   \* the Mutex<WitnessCalculator> the threads share
    out,     \* what generate_proof returned to each thread
    tr       \* the last compute_tree_root call: its arguments and its outcome

vars == <<w1, w2, pv1, pv2, rec, wire, dec, cred, prf, pc, mutex, out, tr>>

shareVars == <<w1, w2, pv1, pv2, rec>>

codecVars == <<wire, dec>>

keyVars == <<cred>>

proverVars == <<prf>>

threadVars == <<pc, mutex, out>>

treeVars == <<tr>>

\* A value that has not been produced yet.
NoVal == [kind |-> "none"]

(***************************************************************************)
(* Bounds of the input sets.                                               *)
(***************************************************************************)
MaxSecret == 2
MaxX == 2
MaxEpoch == 2
MaxRln == 1
MaxDepth == 1
MaxThreads == 3

\* The threads of the process, and the state in which none of them has
\* called generate_proof and the mutex is fresh.
Threads == 1..MaxThreads

MutexNew == [holder |-> 0, poisoned |-> FALSE]

ThreadsIdle ==
    /\ pc = [t \in Threads |-> [at |-> "idle"]]
    /\ mutex = MutexNew
    /\ out = [t \in Threads |-> NoVal]

(***************************************************************************)
(* The field Fr (crate::circuit::Fr).  MODULUS stands for the BN254 scalar *)
(* field order; 7919 is prime and 5 is coprime to 7918, as 5 is coprime to *)
(* the BN254 order minus one (x^5 is the Poseidon S-box).                  *)
(***************************************************************************)
MODULUS == 7919

Fr == 0..(MODULUS - 1)

FrAdd(a, b) == (a + b) % MODULUS

FrSub(a, b) == (a - b + MODULUS) % MODULUS

FrMul(a, b) == (a * b) % MODULUS

RECURSIVE FrPow(_, _)
FrPow(a, e) ==
    IF e = 0 THEN 1
    ELSE LET h == FrPow(a, e \div 2)
             s == FrMul(h, h)
         IN IF e % 2 = 1 THEN FrMul(s, a) ELSE s

\* Field::inverse: None for zero.
FrInverse(a) ==
    IF a = 0 THEN [some |-> FALSE]
    ELSE [some |-> TRUE, val |-> FrPow(a, MODULUS - 2)]

\* The `/` of Fr: a * b.inverse().unwrap(), which panics for b = 0.
FrDiv(a, b) ==
    LET inv == FrInverse(b)
    IN IF inv.some THEN [kind |-> "ok", val |-> FrMul(a, inv.val)]
       ELSE [kind |-> "panic"]

(***************************************************************************)
(* crate::poseidon_hash::poseidon_hash, arity 1 and 2: an opaque hash of   *)
(* the specification.  The stand-in is a permutation for arity 1; for      *)
(* arity 2 it is a permutation in each argument when the other is fixed,   *)
(* and it is not symmetric in its arguments.                               *)
(***************************************************************************)
poseidon_hash(input) ==
    IF Len(input) = 1
    THEN FrAdd(FrPow(FrAdd(input[1], 11), 5), 3)
    ELSE FrAdd(FrPow(FrAdd(FrAdd(input[1], FrMul(2, input[2])), 7), 5), 1)

(***************************************************************************)
(* Merkle tree utility functions.                                          *)
(***************************************************************************)
\* The loop of compute_tree_root from level i on (levels are 1-based here).
\* path_elements[i] is an indexing of a slice: it panics past its end.
RECURSIVE tree_root_from(_, _, _, _)
tree_root_from(root, path_elements, identity_path_index, i) ==
    IF i > Len(identity_path_index) THEN [kind |-> "ok", val |-> root]
    ELSE IF i > Len(path_elements) THEN [kind |-> "panic"]
    ELSE IF identity_path_index[i] = 0
         THEN tree_root_from(poseidon_hash(<<root, path_elements[i]>>),
                             path_elements, identity_path_index, i + 1)
         ELSE tree_root_from(poseidon_hash(<<path_elements[i], root>>),
                             path_elements, identity_path_index, i + 1)

\* The fold taken from the last level down to the first.
compute_tree_root_reversed(leaf, path_elements, identity_path_index, hash_leaf) ==
    LET n == Len(identity_path_index)
    IN tree_root_from(IF hash_leaf THEN poseidon_hash(<<leaf>>) ELSE leaf,
                      [i \in 1..Len(path_elements) |-> path_elements[Len(path_elements) + 1 - i]],
                      [i \in 1..n |-> identity_path_index[n + 1 - i]], 1)

compute_tree_root(leaf, path_elements, identity_path_index, hash_leaf) ==
    tree_root_from(IF hash_leaf THEN poseidon_hash(<<leaf>>) ELSE leaf,
                   path_elements, identity_path_index, 1)

(***************************************************************************)
(* RLN witness and proof values.                                           *)
(***************************************************************************)
RLNWitnessInput(identity_secret, path_elements, identity_path_index, x, epoch, rln_identifier) ==
    [identity_secret |-> identity_secret,
     path_elements |-> path_elements,
     identity_path_index |-> identity_path_index,
     x |-> x,
     epoch |-> epoch,
     rln_identifier |-> rln_identifier]

RLNProofValues(y, nullifier, root, x, epoch, rln_identifier) ==
    [kind |-> "ok",
     y |-> y, nullifier |-> nullifier, root |-> root,
     x |-> x, epoch |-> epoch, rln_identifier |-> rln_identifier]

\* The y share of proof_values_from_witness.
YShareWrongSlope(a_0, x, a_1) == FrAdd(a_0, FrMul(x, a_0))

YShare(a_0, x, a_1) == FrAdd(a_0, FrMul(x, a_1))

proof_values_from_witness(rln_witness) ==
    LET external_nullifier ==
            poseidon_hash(<<rln_witness.epoch, rln_witness.rln_identifier>>)
        a_0 == rln_witness.identity_secret
        a_1 == poseidon_hash(<<a_0, external_nullifier>>)
        y == YShare(a_0, rln_witness.x, a_1)
        nullifier == poseidon_hash(<<a_1>>)
        root == compute_tree_root(rln_witness.identity_secret,
                                  rln_witness.path_elements,
                                  rln_witness.identity_path_index, TRUE)
    IN IF root.kind = "panic" THEN [kind |-> "panic"]
       ELSE RLNProofValues(y, nullifier, root.val, rln_witness.x,
                           rln_witness.epoch, rln_witness.rln_identifier)

(***************************************************************************)
(* Secret recovery.                                                        *)
(***************************************************************************)
\* The intercept of the line through the shares, a_0 = y1 - x1 * a_1.
InterceptNoProduct(x1, y1, a_1) == FrSub(y1, a_1)

Intercept(x1, y1, a_1) == FrSub(y1, FrMul(x1, a_1))

\* The test that ends compute_id_secret.
SameSlopeAlways(a_1, computed_a_1) == TRUE

SameSlope(a_1, computed_a_1) == a_1 = computed_a_1

compute_id_secret(share1, share2, external_nullifier) ==
    LET x1 == share1[1]
        y1 == share1[2]
        x2 == share2[1]
        y2 == share2[2]
        q == FrDiv(FrSub(y1, y2), FrSub(x1, x2))
    IN IF q.kind = "panic" THEN [kind |-> "panic"]
       ELSE LET a_1 == q.val
                a_0 == Intercept(x1, y1, a_1)
                computed_a_1 == poseidon_hash(<<a_0, external_nullifier>>)
            IN IF SameSlope(a_1, computed_a_1)
               THEN [kind |-> "Ok", val |-> a_0]
               ELSE [kind |-> "Err"]

(***************************************************************************)
(* Byte codecs of crate::utils, after section 4.7 of the specification:    *)
(* a field element is FR_BYTE_SIZE bytes, little-endian; a vector is        *)
(* prefixed by its count as a little-endian u64.  A decoder returns the    *)
(* value and the number of bytes it read; slicing past the end of the      *)
(* input panics.                                                           *)
(***************************************************************************)
FR_BYTE_SIZE == 32

U64_BYTE_SIZE == 8

\* The n low bytes of v, least significant first.
RECURSIVE to_bytes_le(_, _)
to_bytes_le(v, n) ==
    IF n = 0 THEN <<>> ELSE <<v % 256>> \o to_bytes_le(v \div 256, n - 1)

\* The integer a little-endian byte string encodes (from byte i on).
RECURSIVE from_bytes_le(_, _)
from_bytes_le(bytes, i) ==
    IF i > Len(bytes) THEN 0 ELSE bytes[i] + 256 * from_bytes_le(bytes, i + 1)

\* The same, reduced modulo the field order (Fr::from of the integer).
RECURSIVE from_bytes_le_mod_order(_, _)
from_bytes_le_mod_order(bytes, i) ==
    IF i > Len(bytes) THEN 0
    ELSE (bytes[i] + 256 * from_bytes_le_mod_order(bytes, i + 1)) % MODULUS

\* &input[n..]
SliceFrom(input, n) == SubSeq(input, n + 1, Len(input))

fr_to_bytes_le(element) == to_bytes_le(element, FR_BYTE_SIZE)

bytes_le_to_fr(input) ==
    IF Len(input) < FR_BYTE_SIZE THEN [kind |-> "panic"]
    ELSE [kind |-> "ok",
          val |-> from_bytes_le_mod_order(SubSeq(input, 1, FR_BYTE_SIZE), 1),
          read |-> FR_BYTE_SIZE]

RECURSIVE concat_fr_bytes(_, _)
concat_fr_bytes(input, i) ==
    IF i > Len(input) THEN <<>>
    ELSE fr_to_bytes_le(input[i]) \o concat_fr_bytes(input, i + 1)

vec_fr_to_bytes_le(input) ==
    to_bytes_le(Len(input), U64_BYTE_SIZE) \o concat_fr_bytes(input, 1)

vec_u8_to_bytes_le(input) == to_bytes_le(Len(input), U64_BYTE_SIZE) \o input

bytes_le_to_vec_fr(input) ==
    IF Len(input) < U64_BYTE_SIZE THEN [kind |-> "panic"]
    ELSE LET len == from_bytes_le(SubSeq(input, 1, U64_BYTE_SIZE), 1)
         IN IF Len(input) < U64_BYTE_SIZE + FR_BYTE_SIZE * len
            THEN [kind |-> "panic"]
            ELSE [kind |-> "ok",
                  val |-> [i \in 1..len |->
                              from_bytes_le_mod_order(
                                  SubSeq(input,
                                         U64_BYTE_SIZE + FR_BYTE_SIZE * (i - 1) + 1,
                                         U64_BYTE_SIZE + FR_BYTE_SIZE * i), 1)],
                  read |-> U64_BYTE_SIZE + FR_BYTE_SIZE * len]

bytes_le_to_vec_u8(input) ==
    IF Len(input) < U64_BYTE_SIZE THEN [kind |-> "panic"]
    ELSE LET len == from_bytes_le(SubSeq(input, 1, U64_BYTE_SIZE), 1)
         IN IF Len(input) < U64_BYTE_SIZE + len THEN [kind |-> "panic"]
            ELSE [kind |-> "ok",
                  val |-> SubSeq(input, U64_BYTE_SIZE + 1, U64_BYTE_SIZE + len),
                  read |-> U64_BYTE_SIZE + len]

(***************************************************************************)
(* Serialization of witnesses and proof values.                            *)
(***************************************************************************)
serialize_witness_epoch_before_x(rln_witness) ==
    fr_to_bytes_le(rln_witness.identity_secret)
        \o vec_fr_to_bytes_le(rln_witness.path_elements)
        \o vec_u8_to_bytes_le(rln_witness.identity_path_index)
        \o fr_to_bytes_le(rln_witness.epoch)
        \o fr_to_bytes_le(rln_witness.x)
        \o fr_to_bytes_le(rln_witness.rln_identifier)

serialize_witness_no_index_count(rln_witness) ==
    fr_to_bytes_le(rln_witness.identity_secret)
        \o vec_fr_to_bytes_le(rln_witness.path_elements)
        \o rln_witness.identity_path_index
        \o fr_to_bytes_le(rln_witness.x)
        \o fr_to_bytes_le(rln_witness.epoch)
        \o fr_to_bytes_le(rln_witness.rln_identifier)

serialize_witness(rln_witness) ==
    fr_to_bytes_le(rln_witness.identity_secret)
        \o vec_fr_to_bytes_le(rln_witness.path_elements)
        \o vec_u8_to_bytes_le(rln_witness.identity_path_index)
        \o fr_to_bytes_le(rln_witness.x)
        \o fr_to_bytes_le(rln_witness.epoch)
        \o fr_to_bytes_le(rln_witness.rln_identifier)

\* The six reads of deserialize_witness, each from the cursor all_read on.
\* A read that panics ends the call.
WitnessReads(serialized) ==
    LET r1 == bytes_le_to_fr(SliceFrom(serialized, 0))
    IN IF r1.kind = "panic" THEN [kind |-> "panic"] ELSE
    LET a1 == r1.read
        r2 == bytes_le_to_vec_fr(SliceFrom(serialized, a1))
    IN IF r2.kind = "panic" THEN [kind |-> "panic"] ELSE
    LET a2 == a1 + r2.read
        r3 == bytes_le_to_vec_u8(SliceFrom(serialized, a2))
    IN IF r3.kind = "panic" THEN [kind |-> "panic"] ELSE
    LET a3 == a2 + r3.read
        r4 == bytes_le_to_fr(SliceFrom(serialized, a3))
    IN IF r4.kind = "panic" THEN [kind |-> "panic"] ELSE
    LET a4 == a3 + r4.read
        r5 == bytes_le_to_fr(SliceFrom(serialized, a4))
    IN IF r5.kind = "panic" THEN [kind |-> "panic"] ELSE
    LET a5 == a4 + r5.read
        r6 == bytes_le_to_fr(SliceFrom(serialized, a5))
    IN IF r6.kind = "panic" THEN [kind |-> "panic"] ELSE
       [kind |-> "ok",
        val |-> RLNWitnessInput(r1.val, r2.val, r3.val, r4.val, r5.val, r6.val),
        read |-> a5 + r6.read]

\* assert_eq!(serialized.len(), all_read)
FullyConsumedUnchecked(len, all_read) == TRUE

FullyConsumed(len, all_read) == len = all_read

deserialize_witness(serialized) ==
    LET r == WitnessReads(serialized)
    IN IF r.kind = "panic" THEN [kind |-> "panic"]
       ELSE IF ~FullyConsumed(Len(serialized), r.read) THEN [kind |-> "panic"]
       ELSE r


serialize_proof_values_struct_order(rln_proof_values) ==
    fr_to_bytes_le(rln_proof_values.y)
        \o fr_to_bytes_le(rln_proof_values.nullifier)
        \o fr_to_bytes_le(rln_proof_values.root)
        \o fr_to_bytes_le(rln_proof_values.x)
        \o fr_to_bytes_le(rln_proof_values.epoch)
        \o fr_to_bytes_le(rln_proof_values.rln_identifier)

serialize_proof_values(rln_proof_values) ==
    fr_to_bytes_le(rln_proof_values.root)
        \o fr_to_bytes_le(rln_proof_values.epoch)
        \o fr_to_bytes_le(rln_proof_values.x)
        \o fr_to_bytes_le(rln_proof_values.y)
        \o fr_to_bytes_le(rln_proof_values.nullifier)
        \o fr_to_bytes_le(rln_proof_values.rln_identifier)

\* No test of the length: bytes after the six elements are left unread.
deserialize_proof_values(serialized) ==
    LET root == bytes_le_to_fr(SliceFrom(serialized, 0))
    IN IF root.kind = "panic" THEN [kind |-> "panic"] ELSE
    LET a1 == root.read
        epoch == bytes_le_to_fr(SliceFrom(serialized, a1))
    IN IF epoch.kind = "panic" THEN [kind |-> "panic"] ELSE
    LET a2 == a1 + epoch.read
        x == bytes_le_to_fr(SliceFrom(serialized, a2))
    IN IF x.kind = "panic" THEN [kind |-> "panic"] ELSE
    LET a3 == a2 + x.read
        y == bytes_le_to_fr(SliceFrom(serialized, a3))
    IN IF y.kind = "panic" THEN [kind |-> "panic"] ELSE
    LET a4 == a3 + y.read
        nullifier == bytes_le_to_fr(SliceFrom(serialized, a4))
    IN IF nullifier.kind = "panic" THEN [kind |-> "panic"] ELSE
    LET a5 == a4 + nullifier.read
        rln_identifier == bytes_le_to_fr(SliceFrom(serialized, a5))
    IN IF rln_identifier.kind = "panic" THEN [kind |-> "panic"] ELSE
       [kind |-> "ok",
        val |-> RLNProofValues(y.val, nullifier.val, root.val, x.val, epoch.val,
                               rln_identifier.val),
        read |-> a5 + rln_identifier.read]

(***************************************************************************)
(* The inputs of the share specification.                                  *)
(***************************************************************************)
SecretInputs == 1..MaxSecret
XInputs == 0..MaxX
EpochInputs == 1..MaxEpoch
RlnInputs == 1..MaxRln
PathElementInputs == {4}

\* Merkle paths as a tree hands them out: as many siblings as index bits.
PathsOfDepth(d) ==
    {<<pe, pi>> : pe \in [1..d -> PathElementInputs], pi \in [1..d -> {0, 1}]}

PathInputs == UNION {PathsOfDepth(d) : d \in 0..MaxDepth}

WitnessInputs ==
    {RLNWitnessInput(s, p[1], p[2], x, e, r) :
        s \in SecretInputs, p \in PathInputs, x \in XInputs,
        e \in EpochInputs, r \in RlnInputs}

ExternalNullifier(w) == poseidon_hash(<<w.epoch, w.rln_identifier>>)

Share(pv) == <<pv.x, pv.y>>

(***************************************************************************)
(* The share specification: two witnesses of one protocol instance (the    *)
(* library sets rln_identifier to the one hash_to_field(RLN_IDENTIFIER)),  *)
(* their proof values, and recovery from the two published shares.         *)
(***************************************************************************)
InitShares ==
    /\ w1 \in WitnessInputs
    /\ w2 \in {w \in WitnessInputs :
                 /\ w.rln_identifier = w1.rln_identifier
                 /\ \/ w.path_elements = w1.path_elements
                       /\ w.identity_path_index = w1.identity_path_index
                    \/ w.path_elements = <<>> /\ w.identity_path_index = <<>>}
    /\ pv1 = NoVal
    /\ pv2 = NoVal
    /\ rec = NoVal
    /\ wire = NoVal
    /\ dec = NoVal
    /\ cred = NoVal
    /\ prf = NoVal
    /\ ThreadsIdle
    /\ tr = NoVal

\* The prover derives the public values of both messages.
ProofValuesFromWitness ==
    /\ pv1 = NoVal
    /\ pv1' = proof_values_from_witness(w1)
    /\ pv2' = proof_values_from_witness(w2)
    /\ UNCHANGED <<w1, w2, rec, codecVars, keyVars, proverVars, threadVars, treeVars>>

\* An observer runs compute_id_secret on two published shares.
ComputeIdSecret ==
    /\ pv1 # NoVal
    /\ pv1.kind = "ok" /\ pv2.kind = "ok"
    /\ \E s1 \in {Share(pv1), Share(pv2)}, s2 \in {Share(pv1), Share(pv2)},
          en \in {ExternalNullifier(w1), ExternalNullifier(w2), 0} :
          rec' = [kind |-> "call", share1 |-> s1, share2 |-> s2,
                  external_nullifier |-> en,
                  res |-> compute_id_secret(s1, s2, en)]
    /\ UNCHANGED <<w1, w2, pv1, pv2, codecVars, keyVars, proverVars, threadVars, treeVars>>

NextShares == ProofValuesFromWitness \/ ComputeIdSecret

SpecShares == InitShares /\ [][NextShares]_vars

(***************************************************************************)
(* Properties of the share specification.                                  *)
(***************************************************************************)
\* The last compute_id_secret call was given the two published shares, one
\* of each message, in either order.
RecoveryOfBothShares ==
    /\ rec.kind = "call"
    /\ {rec.share1, rec.share2} = {Share(pv1), Share(pv2)}

SameIdentityAndInstance ==
    /\ w1.identity_secret = w2.identity_secret
    /\ w1.rln_identifier = w2.rln_identifier

\* C1 (share recovery): two witnesses with the same identity_secret, epoch
\* and rln_identifier and different x give shares from which
\* compute_id_secret, called with Poseidon(epoch, rln_identifier), returns
\* Ok(identity_secret).
C1_ShareRecovery ==
    ( /\ RecoveryOfBothShares
      /\ SameIdentityAndInstance
      /\ w1.epoch = w2.epoch
      /\ w1.x # w2.x
      /\ rec.external_nullifier =
             poseidon_hash(<<w1.epoch, w1.rln_identifier>>) )
    => rec.res = [kind |-> "Ok", val |-> w1.identity_secret]

C1_Witness ==
    /\ RecoveryOfBothShares
    /\ SameIdentityAndInstance
    /\ w1.epoch = w2.epoch
    /\ w1.x # w2.x
    /\ w1.x # 0 /\ w2.x # 0
    /\ rec.external_nullifier = poseidon_hash(<<w1.epoch, w1.rln_identifier>>)
    /\ rec.res.kind = "Ok"

\* C2 (degenerate shares), as claimed: whenever compute_id_secret is called
\* with x1 = x2, the call returns an error to its caller (Err), whatever y1,
\* y2 and the external nullifier are.
C2_DegenerateSharesReturnErr ==
    (rec.kind = "call" /\ rec.share1[1] = rec.share2[1])
    => rec.res.kind = "Err"

\* Two messages of one identity in two different epochs, different x.
CrossEpochRecovery ==
    /\ RecoveryOfBothShares
    /\ SameIdentityAndInstance
    /\ w1.epoch # w2.epoch
    /\ w1.x # w2.x
    /\ rec.external_nullifier \in {ExternalNullifier(w1), ExternalNullifier(w2)}

\* The witness whose share is share1 (share2) of the last call.
WitnessOfShare(s) == IF s = Share(pv1) THEN w1 ELSE w2

C3_WitnessZeroX ==
    /\ CrossEpochRecovery
    /\ w2.x = 0
    /\ rec.external_nullifier = ExternalNullifier(w1)
    /\ rec.res = [kind |-> "Ok", val |-> w1.identity_secret]

\* The values section 4.3 of the specification gives for a witness w.
ExpectedValues(w, pv) ==
    LET en == poseidon_hash(<<w.epoch, w.rln_identifier>>)
        a1 == poseidon_hash(<<w.identity_secret, en>>)
    IN /\ pv.y = (w.identity_secret + w.x * a1) % MODULUS
       /\ pv.nullifier = poseidon_hash(<<a1>>)
       /\ pv.x = w.x
       /\ pv.epoch = w.epoch
       /\ pv.rln_identifier = w.rln_identifier

\* C4 (proof values): proof_values_from_witness gives y = identity_secret +
\* x * a1 with a1 = Poseidon(identity_secret, Poseidon(epoch,
\* rln_identifier)), nullifier = Poseidon(a1), and x, epoch, rln_identifier
\* copied; two witnesses that differ only in x and Merkle path get the same
\* nullifier.
C4_ProofValues ==
    pv1 # NoVal =>
        /\ pv1.kind = "ok" /\ pv2.kind = "ok"
        /\ ExpectedValues(w1, pv1)
        /\ ExpectedValues(w2, pv2)
        /\ (SameIdentityAndInstance /\ w1.epoch = w2.epoch)
               => pv1.nullifier = pv2.nullifier

C4_Witness ==
    /\ pv1 # NoVal
    /\ SameIdentityAndInstance /\ w1.epoch = w2.epoch
    /\ w1.x # w2.x
    /\ w1.path_elements # w2.path_elements
    /\ pv1.nullifier = pv2.nullifier
    /\ pv1.y # pv2.y

(***************************************************************************)
(* The codec specification: a witness and proof values cross a process     *)
(* boundary as bytes.                                                      *)
(***************************************************************************)
MaxCodecDepth == 2

\* tree_height of the round-trip scenario of the specification.
TEST_TREE_HEIGHT == 20

\* Field elements of one and of two significant bytes.
CodecFrInputs == {1, 300}

\* Path indices are bytes; a tree hands out 0 and 1.
CodecIndexInputs == {0, 1}

CodecPaths ==
    UNION {{<<pe, pi>> : pe \in [1..d -> CodecFrInputs],
                         pi \in [1..d -> CodecIndexInputs]} :
           d \in 0..MaxCodecDepth}
    \cup {<<[i \in 1..TEST_TREE_HEIGHT |-> (257 * i) % MODULUS],
            [i \in 1..TEST_TREE_HEIGHT |-> i % 2]>>}

CodecWitnessInputs ==
    {RLNWitnessInput(s, p[1], p[2], x, e, 5) :
        s \in CodecFrInputs, p \in CodecPaths, x \in {0, MODULUS - 1},
        e \in {2, 258}}

CodecProofValuesInputs ==
    {RLNProofValues(y, n, r, x, 2, 5) :
        y \in {3, MODULUS - 1}, n \in {4, 1024}, r \in {6, 513}, x \in {0, 7}}

\* What may follow an encoding in a larger blob: nothing, one byte, or a
\* 128-byte proof with a signal length and a signal.
ZkProofBytes == [i \in 1..128 |-> i]

SuffixInputs ==
    {<<>>, <<0>>, <<9>>,
     ZkProofBytes \o to_bytes_le(2, U64_BYTE_SIZE) \o <<104, 105>>}

\* A process holds a witness to send, or proof values to send.
InitCodec ==
    /\ \/ /\ w1 \in CodecWitnessInputs
          /\ pv1 = RLNProofValues(3, 4, 6, 7, 2, 5)
       \/ /\ w1 = RLNWitnessInput(1, <<>>, <<>>, 0, 2, 5)
          /\ pv1 \in CodecProofValuesInputs
    /\ w2 = w1
    /\ pv2 = pv1
    /\ rec = NoVal
    /\ wire = NoVal
    /\ dec = NoVal
    /\ cred = NoVal
    /\ prf = NoVal
    /\ ThreadsIdle
    /\ tr = NoVal

SerializeWitness ==
    /\ wire' = [kind |-> "witness", bytes |-> serialize_witness(w1)]
    /\ UNCHANGED <<shareVars, dec, keyVars, proverVars, threadVars, treeVars>>

\* The bytes of a serialized witness come back, alone or inside a larger blob.
DeserializeWitness ==
    /\ wire.kind = "witness"
    /\ \E t \in SuffixInputs :
          dec' = [kind |-> "deserialize_witness",
                  input |-> wire.bytes \o t,
                  suffix |-> t,
                  res |-> deserialize_witness(wire.bytes \o t)]
    /\ UNCHANGED <<shareVars, wire, keyVars, proverVars, threadVars, treeVars>>

SerializeProofValues ==
    /\ wire' = [kind |-> "proof_values", bytes |-> serialize_proof_values(pv1)]
    /\ UNCHANGED <<shareVars, dec, keyVars, proverVars, threadVars, treeVars>>

DeserializeProofValues ==
    /\ wire.kind = "proof_values"
    /\ \E t \in SuffixInputs :
          dec' = [kind |-> "deserialize_proof_values",
                  input |-> wire.bytes \o t,
                  suffix |-> t,
                  res |-> deserialize_proof_values(wire.bytes \o t)]
    /\ UNCHANGED <<shareVars, wire, keyVars, proverVars, threadVars, treeVars>>

NextCodec ==
    \/ SerializeWitness
    \/ DeserializeWitness
    \/ SerializeProofValues
    \/ DeserializeProofValues

SpecCodec == InitCodec /\ [][NextCodec]_vars

(***************************************************************************)
(* Properties of the codec specification.                                  *)
(***************************************************************************)
\* C5 (witness round trip): deserialize_witness(serialize_witness(w))
\* returns a witness equal to w in all six fields and a consumed-byte count
\* equal to the length of the serialized bytes.
C5_WitnessRoundTrip ==
    (dec.kind = "deserialize_witness" /\ dec.suffix = <<>>) =>
        /\ dec.res.kind = "ok"
        /\ dec.res.val.identity_secret = w1.identity_secret
        /\ dec.res.val.path_elements = w1.path_elements
        /\ dec.res.val.identity_path_index = w1.identity_path_index
        /\ dec.res.val.x = w1.x
        /\ dec.res.val.epoch = w1.epoch
        /\ dec.res.val.rln_identifier = w1.rln_identifier
        /\ dec.res.read = Len(dec.input)

C5_Witness ==
    /\ dec.kind = "deserialize_witness" /\ dec.suffix = <<>>
    /\ dec.res.kind = "ok"
    /\ Len(w1.path_elements) = 2
    /\ w1.path_elements[1] # w1.path_elements[2]
    /\ w1.x # w1.epoch

\* The bytes of s from offset `from` (0-based), `len` of them.
Slot(s, from, len) == SubSeq(s, from + 1, from + len)

\* The layout of a serialized witness of depth 20: identity_secret (32),
\* u64 count 20 and 20 x 32 bytes, u64 count 20 and 20 x 1 byte, x (32),
\* epoch (32), rln_identifier (32).
WitnessLayout20(b) ==
    LET le(v, n) == [i \in 1..n |-> IF i = 1 THEN v % 256
                                    ELSE IF i = 2 THEN (v \div 256) % 256
                                    ELSE 0]
    IN /\ Slot(b, 0, 32) = le(w1.identity_secret, 32)
       /\ Slot(b, 32, 8) = le(20, 8)
       /\ \A i \in 1..20 :
              Slot(b, 40 + 32 * (i - 1), 32) = le(w1.path_elements[i], 32)
       /\ Slot(b, 680, 8) = le(20, 8)
       /\ Slot(b, 688, 20) = w1.identity_path_index
       /\ Slot(b, 708, 32) = le(w1.x, 32)
       /\ Slot(b, 740, 32) = le(w1.epoch, 32)
       /\ Slot(b, 772, 32) = le(w1.rln_identifier, 32)

SerializedDepth20 ==
    /\ wire.kind = "witness"
    /\ Len(w1.path_elements) = 20
    /\ Len(w1.identity_path_index) = 20

\* C6 (witness size), as claimed: a witness of depth 20 serializes to
\* exactly 820 bytes, laid out as identity_secret, counted path elements,
\* counted path indices, x, epoch, rln_identifier.
C6_WitnessSize820 ==
    SerializedDepth20 =>
        (Len(wire.bytes) = 820 /\ WitnessLayout20(wire.bytes))

\* C6, amended: a witness of depth 20 serializes to exactly 804 bytes
\* (32 + 8 + 20 * 32 + 8 + 20 + 32 + 32 + 32), in the claimed layout.
C6_WitnessSize804 ==
    SerializedDepth20 =>
        (Len(wire.bytes) = 804 /\ WitnessLayout20(wire.bytes))

C6_Witness == SerializedDepth20 /\ Len(wire.bytes) = 804

\* C7 (full consumption): a valid witness encoding followed by one or more
\* bytes makes deserialize_witness fail (its assert_eq! panics) and no
\* witness is produced.
C7_TrailingBytesRejected ==
    (dec.kind = "deserialize_witness" /\ Len(dec.suffix) >= 1) =>
        dec.res = [kind |-> "panic"]

C7_Witness ==
    /\ dec.kind = "deserialize_witness"
    /\ Len(dec.suffix) = 1
    /\ dec.res.kind = "panic"

\* C8 (proof values round trip and wire order): serialize_proof_values(v)
\* is the 192 bytes root, epoch, x, y, nullifier, rln_identifier in that
\* order, and deserialize_proof_values of these bytes followed by any
\* suffix returns (v, 192).
C8_ProofValuesRoundTrip ==
    /\ wire.kind = "proof_values" =>
           LET b == wire.bytes
           IN /\ Len(b) = 192
              /\ bytes_le_to_fr(Slot(b, 0, 32)).val = pv1.root
              /\ bytes_le_to_fr(Slot(b, 32, 32)).val = pv1.epoch
              /\ bytes_le_to_fr(Slot(b, 64, 32)).val = pv1.x
              /\ bytes_le_to_fr(Slot(b, 96, 32)).val = pv1.y
              /\ bytes_le_to_fr(Slot(b, 128, 32)).val = pv1.nullifier
              /\ bytes_le_to_fr(Slot(b, 160, 32)).val = pv1.rln_identifier
    /\ dec.kind = "deserialize_proof_values" =>
           dec.res = [kind |-> "ok", val |-> pv1, read |-> 192]

C8_Witness ==
    /\ dec.kind = "deserialize_proof_values"
    /\ Len(dec.suffix) > 128
    /\ dec.res.kind = "ok"
    /\ dec.res.read = 192
    /\ Cardinality({pv1.root, pv1.epoch, pv1.x, pv1.y, pv1.nullifier,
                    pv1.rln_identifier}) = 6

(***************************************************************************)
(* Identity credentials (identity.rs, and the keygen functions of          *)
(* protocol.rs).  SHA-256, Keccak-256 and the ChaCha20 generator are       *)
(* opaque: SHA-256 is a stand-in digest of two bytes, the                  *)
(* draws of thread_rng() are any field elements, and the draws of the      *)
(* seeded generator are a fixed function of the seed.                      *)
(***************************************************************************)
\* sha: a digest of the message, most significant byte first.
RECURSIVE sha_state(_, _, _)
sha_state(msg, i, h) ==
    IF i > Len(msg) THEN h
    ELSE sha_state(msg, i + 1, (h * 31 + msg[i] + 7) % 65521)

sha(msg) ==
    LET h == sha_state(msg, 1, 17 + Len(msg))
    IN <<h \div 256, h % 256>>

\* hex::encode: two lowercase hexadecimal digits per byte, as ASCII codes.
HexDigit(d) == IF d < 10 THEN 48 + d ELSE 87 + d

RECURSIVE hex_encode(_, _)
hex_encode(bytes, i) ==
    IF i > Len(bytes) THEN <<>>
    ELSE <<HexDigit(bytes[i] \div 16), HexDigit(bytes[i] % 16)>>
             \o hex_encode(bytes, i + 1)

\* "identity_trapdoor" and "identity_nullifier", as ASCII codes.
IdentityTrapdoorLabel ==
    <<105, 100, 101, 110, 116, 105, 116, 121, 95,
      116, 114, 97, 112, 100, 111, 111, 114>>

IdentityNullifierLabel ==
    <<105, 100, 101, 110, 116, 105, 116, 121, 95,
      110, 117, 108, 108, 105, 102, 105, 101, 114>>

\* BigInt::from_bytes_be(Sign::Plus, bytes)
RECURSIVE from_bytes_be(_, _, _)
from_bytes_be(bytes, i, acc) ==
    IF i > Len(bytes) THEN acc ELSE from_bytes_be(bytes, i + 1, acc * 256 + bytes[i])

\* crate::util::bigint_to_fr, for a non-negative integer.
bigint_to_fr(v) == v % MODULUS

\* Identity::new
IdentityNew(seed) ==
    LET seed_hash == sha(seed)
    IN [trapdoor |-> from_bytes_be(
                         sha(hex_encode(seed_hash, 1) \o IdentityTrapdoorLabel), 1, 0),
        nullifier |-> from_bytes_be(
                          sha(hex_encode(seed_hash, 1) \o IdentityNullifierLabel), 1, 0)]

\* Identity::secret_hash.  identity.rs hashes with poseidon_rs; it is the
\* same Poseidon function as crate::poseidon_hash.
IdentitySecretHash(id) ==
    poseidon_hash(<<bigint_to_fr(id.nullifier), bigint_to_fr(id.trapdoor)>>)

\* Identity::commitment
IdentityCommitment(id) == poseidon_hash(<<bigint_to_fr(IdentitySecretHash(id))>>)

\* The k-th Fr::rand of ChaCha20Rng::from_seed(Keccak-256(signal)).
seeded_rng_draw(signal, k) == (sha_state(signal, 1, 101 + k) * 7 + k) % MODULUS

\* The tuple extended_keygen and extended_seeded_keygen return for the two
\* draws of their generator.
extended_keygen_from(identity_trapdoor, identity_nullifier) ==
    LET identity_secret_hash ==
            poseidon_hash(<<identity_trapdoor, identity_nullifier>>)
        id_commitment == poseidon_hash(<<identity_secret_hash>>)
    IN <<identity_trapdoor, identity_nullifier, identity_secret_hash,
         id_commitment>>

Credential(kind, trapdoor, nullifier, secret_hash, commitment) ==
    [kind |-> kind, trapdoor |-> trapdoor, nullifier |-> nullifier,
     secret_hash |-> secret_hash, commitment |-> commitment]

(***************************************************************************)
(* The key specification: a process derives a credential.                  *)
(***************************************************************************)
MaxKeyFr == 7
MaxSeedLen == 2
MaxSeedByte == 3

KeyFrInputs == 0..MaxKeyFr

SeedInputs == UNION {[1..n -> 0..MaxSeedByte] : n \in 0..MaxSeedLen}

InitKeys ==
    /\ w1 = RLNWitnessInput(1, <<>>, <<>>, 0, 2, 5)
    /\ w2 = w1
    /\ pv1 = NoVal
    /\ pv2 = NoVal
    /\ rec = NoVal
    /\ wire = NoVal
    /\ dec = NoVal
    /\ cred = NoVal
    /\ prf = NoVal
    /\ ThreadsIdle
    /\ tr = NoVal

\* Identity::new(seed), then secret_hash() and commitment() of the identity.
SeededIdentity ==
    /\ cred = NoVal
    /\ \E seed \in SeedInputs :
          LET id == IdentityNew(seed)
          IN cred' = Credential("identity", bigint_to_fr(id.trapdoor),
                                bigint_to_fr(id.nullifier),
                                IdentitySecretHash(id), IdentityCommitment(id))
    /\ UNCHANGED <<shareVars, codecVars, proverVars, threadVars, treeVars>>

\* An Identity built from its two public fields.
IdentityOfPair ==
    /\ cred = NoVal
    /\ \E t \in KeyFrInputs, n \in KeyFrInputs :
          LET id == [trapdoor |-> t, nullifier |-> n]
          IN cred' = Credential("identity", t, n,
                                IdentitySecretHash(id), IdentityCommitment(id))
    /\ UNCHANGED <<shareVars, codecVars, proverVars, threadVars, treeVars>>

\* extended_keygen(): the draws come from thread_rng().
ExtendedKeygen ==
    /\ cred = NoVal
    /\ \E t \in KeyFrInputs, n \in KeyFrInputs :
          LET k == extended_keygen_from(t, n)
          IN cred' = Credential("extended_keygen", k[1], k[2], k[3], k[4])
    /\ UNCHANGED <<shareVars, codecVars, proverVars, threadVars, treeVars>>

\* extended_seeded_keygen(signal): the draws come from ChaCha20 seeded with
\* Keccak-256(signal).
ExtendedSeededKeygen ==
    /\ cred = NoVal
    /\ \E signal \in SeedInputs :
          LET k == extended_keygen_from(seeded_rng_draw(signal, 1),
                                        seeded_rng_draw(signal, 2))
          IN cred' = Credential("extended_seeded_keygen", k[1], k[2], k[3], k[4])
    /\ UNCHANGED <<shareVars, codecVars, proverVars, threadVars, treeVars>>

NextKeys ==
    \/ SeededIdentity
    \/ IdentityOfPair
    \/ ExtendedKeygen
    \/ ExtendedSeededKeygen

SpecKeys == InitKeys /\ [][NextKeys]_vars

\* C9 (derivation consistency), as claimed: every derived credential,
\* whichever derivation made it, has secret_hash = Poseidon(nullifier,
\* trapdoor), nullifier first, and commitment = Poseidon(secret_hash); so
\* its secret_hash and commitment are those Identity gives for the same
\* (trapdoor, nullifier) pair.
C9_DerivationConsistency ==
    cred # NoVal =>
        /\ cred.secret_hash = poseidon_hash(<<cred.nullifier, cred.trapdoor>>)
        /\ cred.commitment = poseidon_hash(<<cred.secret_hash>>)
        /\ LET id == [trapdoor |-> cred.trapdoor, nullifier |-> cred.nullifier]
           IN /\ cred.secret_hash = IdentitySecretHash(id)
              /\ cred.commitment = IdentityCommitment(id)

\* What does hold: Identity follows the claimed rule, and every derivation
\* has commitment = Poseidon(secret_hash).
C9_IdentityOnly ==
    cred # NoVal =>
        /\ cred.commitment = poseidon_hash(<<cred.secret_hash>>)
        /\ cred.kind = "identity" =>
               cred.secret_hash = poseidon_hash(<<cred.nullifier, cred.trapdoor>>)
        /\ cred.kind # "identity" =>
               cred.secret_hash = poseidon_hash(<<cred.trapdoor, cred.nullifier>>)

(***************************************************************************)
(* zkSNARK utility functions.  The witness calculator and the Groth16      *)
(* prover are external: whether each succeeds is an input of the call.     *)
(***************************************************************************)
\* The conversion of one signed integer of the full assignment.  The
\* subtraction is one of unsigned big integers: it panics below zero.
witness_element_to_fr(w) ==
    IF w < 0
    THEN IF -w > MODULUS THEN [kind |-> "panic"]
         ELSE [kind |-> "ok", val |-> (MODULUS - (-w)) % MODULUS]
    ELSE [kind |-> "ok", val |-> w % MODULUS]

\* calculate_witness_element: Ok of the converted vector, never Err.
calculate_witness_element(witness) ==
    IF \E i \in 1..Len(witness) : witness_element_to_fr(witness[i]).kind = "panic"
    THEN [kind |-> "panic"]
    ELSE [kind |-> "Ok",
          val |-> [i \in 1..Len(witness) |-> witness_element_to_fr(witness[i]).val]]

\* create_proof_with_reduction_and_matrices, which succeeds or not as the
\* proving system decides; r and s are the blinders.
create_proof(prover_fails, r, s, full_assignment) ==
    IF prover_fails THEN [kind |-> "Err", error |-> "SynthesisError"]
    ELSE [kind |-> "Ok",
          proof |-> [r |-> r, s |-> s, full_assignment |-> full_assignment]]

\* generate_proof_with_witness unwraps both results: an Err panics.
generate_proof_with_witness(witness, prover_fails, r, s) ==
    LET c == calculate_witness_element(witness)
    IN IF c.kind # "Ok" THEN [kind |-> "panic"]
       ELSE LET proof == create_proof(prover_fails, r, s, c.val)
            IN IF proof.kind = "Err" THEN [kind |-> "panic"]
               ELSE [kind |-> "Ok", proof |-> proof.proof]

\* to_bigint of a field element: the same non-negative integer.
to_bigint(el) == el

inputs_for_witness_calculation(rln_witness) ==
    [identity_secret |-> <<to_bigint(rln_witness.identity_secret)>>,
     path_elements |->
         [i \in 1..Len(rln_witness.path_elements) |->
             to_bigint(rln_witness.path_elements[i])],
     identity_path_index |-> rln_witness.identity_path_index,
     x |-> <<to_bigint(rln_witness.x)>>,
     epoch |-> <<to_bigint(rln_witness.epoch)>>,
     rln_identifier |-> <<to_bigint(rln_witness.rln_identifier)>>]

\* generate_proof on a non-wasm target.  calc is what the witness
\* calculator answers for the inputs: Ok of a full assignment or Err.
generate_proof(poisoned, calc, prover_fails, r, s, rln_witness) ==
    LET inputs == inputs_for_witness_calculation(rln_witness)
    IN IF poisoned THEN [kind |-> "panic"]
       ELSE IF calc.kind = "Err"
       THEN [kind |-> "Err", error |-> "WitnessError"]
       ELSE LET proof == create_proof(prover_fails, r, s, calc.val)
            IN IF proof.kind = "Err"
               THEN [kind |-> "Err", error |-> proof.error]
               ELSE [kind |-> "Ok", proof |-> proof.proof]

(***************************************************************************)
(* The prover specification: a process asks for a proof.                   *)
(***************************************************************************)
MaxAssignmentLen == 2
MaxBlinder == 2

\* Signed integers a witness calculator may emit, around 0 and the modulus.
SignedInputs ==
    {-(MODULUS + 1), -MODULUS, -(MODULUS - 1), -1, 0, 1, MODULUS, MODULUS + 1}

AssignmentInputs == UNION {[1..n -> SignedInputs] : n \in 1..MaxAssignmentLen}

BlinderInputs == 1..MaxBlinder

\* Answers of the external witness calculator.
CalculatorAnswers ==
    {[kind |-> "Err"]} \cup {[kind |-> "Ok", val |-> <<1, a>>] : a \in {0, 3}}

InitProver ==
    /\ w1 \in {RLNWitnessInput(s, <<4>>, <<b>>, x, 2, 5) :
                 s \in 1..2, b \in {0, 1}, x \in 0..1}
    /\ w2 = w1
    /\ pv1 = NoVal
    /\ pv2 = NoVal
    /\ rec = NoVal
    /\ wire = NoVal
    /\ dec = NoVal
    /\ cred = NoVal
    /\ prf = NoVal
    /\ ThreadsIdle
    /\ tr = NoVal

GenerateProofWithWitness ==
    /\ prf = NoVal
    /\ \E witness \in AssignmentInputs, prover_fails \in BOOLEAN,
          r \in BlinderInputs, s \in BlinderInputs :
          prf' = [fn |-> "generate_proof_with_witness",
                  witness_fails |-> FALSE,
                  prover_fails |-> prover_fails,
                  witness |-> witness,
                  res |-> generate_proof_with_witness(witness, prover_fails, r, s)]
    /\ UNCHANGED <<shareVars, codecVars, keyVars, threadVars, treeVars>>

GenerateProof ==
    /\ prf = NoVal
    /\ \E poisoned \in BOOLEAN, calc \in CalculatorAnswers,
          prover_fails \in BOOLEAN, r \in BlinderInputs, s \in BlinderInputs :
          prf' = [fn |-> "generate_proof",
                  witness_fails |-> (~poisoned /\ calc.kind = "Err"),
                  prover_fails |-> (~poisoned /\ calc.kind = "Ok" /\ prover_fails),
                  poisoned |-> poisoned,
                  inputs |-> inputs_for_witness_calculation(w1),
                  res |-> generate_proof(poisoned, calc, prover_fails, r, s, w1)]
    /\ UNCHANGED <<shareVars, codecVars, keyVars, threadVars, treeVars>>

NextProver == GenerateProofWithWitness \/ GenerateProof

SpecProver == InitProver /\ [][NextProver]_vars

\* The last prover call met a failure of the witness calculation (of the
\* proving system).
WitnessFailure == prf # NoVal /\ prf.witness_fails

ProverFailure ==
    /\ prf # NoVal
    /\ prf.prover_fails
    /\ (prf.fn = "generate_proof_with_witness" =>
            calculate_witness_element(prf.witness).kind = "Ok")

\* C10 (prover errors), as claimed: in generate_proof and in
\* generate_proof_with_witness a witness-calculation failure is returned as
\* ProofError::WitnessError and a proving-system failure as
\* ProofError::SynthesisError.
C10_ProverErrorsReturned ==
    /\ WitnessFailure => prf.res = [kind |-> "Err", error |-> "WitnessError"]
    /\ ProverFailure => prf.res = [kind |-> "Err", error |-> "SynthesisError"]

\* What does hold: generate_proof returns the two failures as the two
\* errors; generate_proof_with_witness panics on a proving-system failure.
C10_GenerateProofOnly ==
    /\ (prf # NoVal /\ prf.fn = "generate_proof") => C10_ProverErrorsReturned
    /\ (ProverFailure /\ prf.fn = "generate_proof_with_witness")
           => prf.res = [kind |-> "panic"]

(***************************************************************************)
(* generate_proof called from several threads with one                     *)
(* Mutex<WitnessCalculator> (non-wasm targets).  The MutexGuard is a       *)
(* temporary of the statement                                              *)
(*   witness_calculator.lock().expect(..)                                  *)
(*       .calculate_witness_element(inputs, false).map_err(..)?;           *)
(* so it is dropped when the statement ends: after the calculation, on     *)
(* the early return of `?`, and while unwinding if the calculator panics   *)
(* (which poisons the mutex).                                              *)
(***************************************************************************)
\* Mutex::lock blocks while another thread holds the guard.
MutexCanLock(m) == m.holder = 0

MutexLock(m, t) == [m EXCEPT !.holder = t]

\* A guard that is never dropped.
MutexGuardLeak(m, t, panicking) == m

\* Drop of the MutexGuard: the mutex is unlocked, and poisoned if the
\* thread is panicking.
MutexGuardDrop(m, t, panicking) ==
    [holder |-> IF m.holder = t THEN 0 ELSE m.holder,
     poisoned |-> m.poisoned \/ panicking]

\* What WitnessCalculator::calculate_witness_element may do: answer Ok of a
\* full assignment, answer Err, or panic.
CalculatorOutcomes == CalculatorAnswers \cup {[kind |-> "panic"]}

InitThreads ==
    /\ w1 = RLNWitnessInput(1, <<4>>, <<0>>, 0, 2, 5)
    /\ w2 = w1
    /\ pv1 = NoVal
    /\ pv2 = NoVal
    /\ rec = NoVal
    /\ wire = NoVal
    /\ dec = NoVal
    /\ cred = NoVal
    /\ prf = NoVal
    /\ ThreadsIdle
    /\ tr = NoVal

\* Thread t calls generate_proof and builds the calculator inputs.
Call(t) ==
    /\ pc[t].at = "idle"
    /\ pc' = [pc EXCEPT ![t] = [at |-> "lock",
                                inputs |-> inputs_for_witness_calculation(w1)]]
    /\ UNCHANGED <<shareVars, codecVars, keyVars, proverVars, mutex, out, treeVars>>

\* lock().expect(..): the thread gets the guard, or panics on a poisoned
\* mutex (the guard inside the PoisonError is dropped by the unwinding).
Lock(t) ==
    /\ pc[t].at = "lock"
    /\ MutexCanLock(mutex)
    /\ IF mutex.poisoned
       THEN /\ pc' = [pc EXCEPT ![t] = [at |-> "done"]]
            /\ out' = [out EXCEPT ![t] = [kind |-> "panic"]]
            /\ UNCHANGED mutex
       ELSE /\ pc' = [pc EXCEPT ![t] = [at |-> "calc", inputs |-> pc[t].inputs]]
            /\ mutex' = MutexLock(mutex, t)
            /\ UNCHANGED out
    /\ UNCHANGED <<shareVars, codecVars, keyVars, proverVars, treeVars>>

\* The calculator runs and answers.
Calculate(t) ==
    /\ pc[t].at = "calc"
    /\ \E calc \in CalculatorOutcomes :
          pc' = [pc EXCEPT ![t] = [at |-> "drop", calc |-> calc]]
    /\ UNCHANGED <<shareVars, codecVars, keyVars, proverVars, mutex, out, treeVars>>

\* The statement ends: `?` returns WitnessError on Err, the full assignment
\* is bound on Ok, the panic unwinds; the guard is dropped in each case.
DropGuard(t) ==
    /\ pc[t].at = "drop"
    /\ mutex' = MutexGuardDrop(mutex, t, pc[t].calc.kind = "panic")
    /\ IF pc[t].calc.kind = "Ok"
       THEN /\ pc' = [pc EXCEPT ![t] = [at |-> "prove",
                                        full_assignment |-> pc[t].calc.val]]
            /\ UNCHANGED out
       ELSE /\ pc' = [pc EXCEPT ![t] = [at |-> "done"]]
            /\ out' = [out EXCEPT ![t] =
                          IF pc[t].calc.kind = "Err"
                          THEN [kind |-> "Err", error |-> "WitnessError"]
                          ELSE [kind |-> "panic"]]
    /\ UNCHANGED <<shareVars, codecVars, keyVars, proverVars, treeVars>>

\* The proof is created outside the lock and returned.
Prove(t) ==
    /\ pc[t].at = "prove"
    /\ \E prover_fails \in BOOLEAN, r \in BlinderInputs, s \in BlinderInputs :
          LET proof == create_proof(prover_fails, r, s, pc[t].full_assignment)
          IN out' = [out EXCEPT ![t] =
                        IF proof.kind = "Err"
                        THEN [kind |-> "Err", error |-> proof.error]
                        ELSE [kind |-> "Ok", proof |-> proof.proof]]
    /\ pc' = [pc EXCEPT ![t] = [at |-> "done"]]
    /\ UNCHANGED <<shareVars, codecVars, keyVars, proverVars, mutex, treeVars>>

NextThreads ==
    \E t \in Threads :
        \/ Call(t)
        \/ Lock(t)
        \/ Calculate(t)
        \/ DropGuard(t)
        \/ Prove(t)

SpecThreads == InitThreads /\ [][NextThreads]_vars

\* Thread t is inside calculate_witness_element.
InCalculator(t) == pc[t].at = "calc"

ReturnedWitnessError(t) == out[t] = [kind |-> "Err", error |-> "WitnessError"]

\* C11 (exclusive access to the witness calculator): at most one thread is
\* inside calculate_witness_element at any time, and it holds the mutex; a
\* call that returned WitnessError does not hold the mutex, and as long as
\* no call panicked the mutex is not poisoned, so a thread waiting on a free
\* mutex can acquire it.
C11_ExclusiveCalculator ==
    /\ \A t \in Threads, u \in Threads :
          (InCalculator(t) /\ InCalculator(u)) => t = u
    /\ \A t \in Threads : InCalculator(t) => mutex.holder = t
    /\ \A t \in Threads : ReturnedWitnessError(t) => mutex.holder # t
    /\ (\A t \in Threads : out[t] # [kind |-> "panic"]) => ~mutex.poisoned
    /\ \A t \in Threads :
          (pc[t].at = "lock" /\ mutex.holder = 0 /\ ~mutex.poisoned)
              => ENABLED Lock(t)

\* One call returned WitnessError, a later call is inside the calculator,
\* and a third one waits for the mutex.
C11_Witness ==
    \E t \in Threads, u \in Threads, v \in Threads :
        /\ ReturnedWitnessError(t)
        /\ InCalculator(u)
        /\ pc[v].at = "lock"

(***************************************************************************)
(* The Merkle specification: a process holds a witness whose path has one  *)
(* element and one index per level, computes the root of its leaf with and *)
(* without hashing the leaf, and derives the proof values.                 *)
(***************************************************************************)
MaxTreeDepth == 2

TreeElementInputs == {4, 9}

\* identity_path_index is a Vec<u8>: 0, 1, and a byte that is neither.
TreeIndexInputs == {0, 1, 2}

TreeWitnessInputs ==
    {RLNWitnessInput(leaf, e, b, 1, 2, 5) :
        leaf \in 1..2,
        e \in UNION {[1..d -> TreeElementInputs] : d \in 0..MaxTreeDepth},
        b \in UNION {[1..d -> TreeIndexInputs] : d \in 0..MaxTreeDepth}}

InitTree ==
    /\ w1 \in {w \in TreeWitnessInputs :
                 Len(w.path_elements) = Len(w.identity_path_index)}
    /\ w2 = w1
    /\ pv1 = NoVal
    /\ pv2 = NoVal
    /\ rec = NoVal
    /\ wire = NoVal
    /\ dec = NoVal
    /\ cred = NoVal
    /\ prf = NoVal
    /\ ThreadsIdle
    /\ tr = NoVal

ComputeTreeRoot ==
    /\ tr = NoVal
    /\ \E hash_leaf \in BOOLEAN :
          tr' = [leaf |-> w1.identity_secret,
                 path_elements |-> w1.path_elements,
                 identity_path_index |-> w1.identity_path_index,
                 hash_leaf |-> hash_leaf,
                 res |-> compute_tree_root(w1.identity_secret, w1.path_elements,
                                           w1.identity_path_index, hash_leaf)]
    /\ UNCHANGED <<shareVars, codecVars, keyVars, proverVars, threadVars>>

NextTree == ComputeTreeRoot \/ ProofValuesFromWitness

SpecTree == InitTree /\ [][NextTree]_vars

\* The accumulator of the claimed fold after the first d levels.
RECURSIVE FoldAcc(_, _, _, _, _)
FoldAcc(leaf, e, b, hash_leaf, d) ==
    IF d = 0 THEN (IF hash_leaf THEN poseidon_hash(<<leaf>>) ELSE leaf)
    ELSE LET acc == FoldAcc(leaf, e, b, hash_leaf, d - 1)
         IN IF b[d] = 0 THEN poseidon_hash(<<acc, e[d]>>)
            ELSE poseidon_hash(<<e[d], acc>>)

\* C12 (Merkle root fold): for |e| = |b| = D, compute_tree_root(leaf, e, b,
\* hash_leaf) returns the fold that starts from Poseidon(leaf) if hash_leaf
\* and from leaf otherwise, and at each level in increasing order takes
\* Poseidon(acc, e[i]) when b[i] = 0 and Poseidon(e[i], acc) otherwise; the
\* root of proof_values_from_witness(w) is this fold on the identity secret
\* and the path of w with the leaf hashed.
C12_TreeRootIsFold ==
    /\ (tr # NoVal /\ Len(tr.path_elements) = Len(tr.identity_path_index)) =>
           tr.res = [kind |-> "ok",
                     val |-> FoldAcc(tr.leaf, tr.path_elements,
                                     tr.identity_path_index, tr.hash_leaf,
                                     Len(tr.identity_path_index))]
    /\ (pv1 # NoVal /\ Len(w1.path_elements) = Len(w1.identity_path_index)) =>
           /\ pv1.kind = "ok"
           /\ pv1.root = FoldAcc(w1.identity_secret, w1.path_elements,
                                 w1.identity_path_index, TRUE,
                                 Len(w1.identity_path_index))

\* A root was computed over two levels that go to different sides, without
\* hashing the leaf, and the proof values of the same witness are derived.
C12_Witness ==
    /\ tr # NoVal
    /\ ~tr.hash_leaf
    /\ Len(tr.identity_path_index) = MaxTreeDepth
    /\ tr.identity_path_index[1] = 0
    /\ tr.identity_path_index[2] # 0
    /\ tr.path_elements[1] # tr.path_elements[2]
    /\ tr.res.kind = "ok"
    /\ pv1 # NoVal

(***************************************************************************)
(* Signed-to-field conversion of the full assignment (SpecProver).         *)
(***************************************************************************)
\* v mod p as claimed: v mod p for v >= 0 and p - (k mod p), as a field
\* element, for v = -k.
SignedModP(v) ==
    IF v >= 0 THEN v % MODULUS
    ELSE (MODULUS - ((-v) % MODULUS)) % MODULUS

ConvertedCall ==
    /\ prf # NoVal
    /\ prf.fn = "generate_proof_with_witness"
    /\ ~prf.prover_fails

\* C13 (signed-to-field conversion), as claimed: calculate_witness_element,
\* used by generate_proof_with_witness, maps every signed integer v of the
\* full assignment to v mod p, a negative -k to p - (k mod p) for every
\* magnitude k including k >= p, without aborting.
C13_SignedToField ==
    ConvertedCall =>
        /\ prf.res.kind = "Ok"
        /\ prf.res.proof.full_assignment =
               [i \in 1..Len(prf.witness) |-> SignedModP(prf.witness[i])]

\* What does hold: the conversion is v mod p when every negative element
\* has a magnitude of at most p; a negative element of a larger magnitude
\* aborts the call.
C13_MagnitudeAtMostModulus ==
    ConvertedCall =>
        IF \A i \in 1..Len(prf.witness) : prf.witness[i] >= -MODULUS
        THEN /\ prf.res.kind = "Ok"
             /\ prf.res.proof.full_assignment =
                    [i \in 1..Len(prf.witness) |-> SignedModP(prf.witness[i])]
        ELSE prf.res = [kind |-> "panic"]

(***************************************************************************)
(* JSON interop.  The document is the parsed serde_json value: the scalar  *)
(* fields are digit strings, identity_path_index is an array of numbers.   *)
(***************************************************************************)
\* str_to_fr: the digits read in the radix, as a field element.
RECURSIVE str_to_fr_from(_, _, _)
str_to_fr_from(digits, radix, n) ==
    IF n = 0 THEN 0
    ELSE (str_to_fr_from(digits, radix, n - 1) * radix + digits[n]) % MODULUS

str_to_fr(digits, radix) == str_to_fr_from(digits, radix, Len(digits))

\* v.as_u64().unwrap() as u8: None for a number that is no u64, and the low
\* byte of one that is.
as_u64(v) == IF v < 0 THEN [some |-> FALSE] ELSE [some |-> TRUE, val |-> v]

as_u8(v) == v % 256

rln_witness_from_json(input_json) ==
    IF \E i \in 1..Len(input_json.identity_path_index) :
          ~as_u64(input_json.identity_path_index[i]).some
    THEN [kind |-> "panic"]
    ELSE [kind |-> "ok",
          val |-> RLNWitnessInput(
              str_to_fr(input_json.identity_secret, 10),
              [i \in 1..Len(input_json.path_elements) |->
                  str_to_fr(input_json.path_elements[i], 10)],
              [i \in 1..Len(input_json.identity_path_index) |->
                  as_u8(as_u64(input_json.identity_path_index[i]).val)],
              str_to_fr(input_json.x, 10),
              str_to_fr(input_json.epoch, 16),
              str_to_fr(input_json.rln_identifier, 10))]

(***************************************************************************)
(* The decoder specification: a process receives the bytes or the JSON     *)
(* document of a witness from outside, decodes it, and derives the proof   *)
(* values of what it decoded.                                              *)
(***************************************************************************)
MaxReceivedDepth == 2

\* Byte strings with the framing of a serialized witness, whose two length
\* prefixes are chosen independently and whose index bytes are 0, 1 or 2.
ReceivedEncodings ==
    {fr_to_bytes_le(1) \o vec_fr_to_bytes_le(e) \o vec_u8_to_bytes_le(b)
         \o fr_to_bytes_le(0) \o fr_to_bytes_le(2) \o fr_to_bytes_le(5) :
        e \in UNION {[1..d -> {4}] : d \in 0..MaxReceivedDepth},
        b \in UNION {[1..d -> {0, 1, 2}] : d \in 0..MaxReceivedDepth}}

ReceivedJson ==
    {[identity_secret |-> <<1>>, path_elements |-> e, identity_path_index |-> b,
      x |-> <<0>>, epoch |-> <<1, 10>>, rln_identifier |-> <<5>>] :
        e \in UNION {[1..d -> {<<4>>, <<1, 2>>}] : d \in 0..MaxReceivedDepth},
        b \in UNION {[1..d -> {-1, 0, 1, 258}] : d \in 0..MaxReceivedDepth}}

InitDecode ==
    /\ w1 = RLNWitnessInput(1, <<>>, <<>>, 0, 2, 5)
    /\ w2 = w1
    /\ pv1 = NoVal
    /\ pv2 = NoVal
    /\ rec = NoVal
    /\ wire = NoVal
    /\ dec = NoVal
    /\ cred = NoVal
    /\ prf = NoVal
    /\ ThreadsIdle
    /\ tr = NoVal

DeserializeReceived ==
    /\ dec = NoVal
    /\ \E serialized \in ReceivedEncodings :
          dec' = [kind |-> "deserialize_witness",
                  input |-> serialized,
                  suffix |-> <<>>,
                  res |-> deserialize_witness(serialized)]
    /\ UNCHANGED <<shareVars, wire, keyVars, proverVars, threadVars, treeVars>>

WitnessFromJson ==
    /\ dec = NoVal
    /\ \E input_json \in ReceivedJson :
          dec' = [kind |-> "rln_witness_from_json",
                  input |-> input_json,
                  suffix |-> <<>>,
                  res |-> rln_witness_from_json(input_json)]
    /\ UNCHANGED <<shareVars, wire, keyVars, proverVars, threadVars, treeVars>>

\* proof_values_from_witness of the decoded witness runs compute_tree_root
\* on its path.
ProofValuesOfDecoded ==
    /\ dec # NoVal
    /\ dec.res.kind = "ok"
    /\ pv1 = NoVal
    /\ pv1' = proof_values_from_witness(dec.res.val)
    /\ pv2' = pv1'
    /\ UNCHANGED <<w1, w2, rec, codecVars, keyVars, proverVars, threadVars, treeVars>>

NextDecode == DeserializeReceived \/ WitnessFromJson \/ ProofValuesOfDecoded

SpecDecode == InitDecode /\ [][NextDecode]_vars

\* The two length prefixes of a received encoding.
ElementCountPrefix(b) ==
    from_bytes_le(SubSeq(b, FR_BYTE_SIZE + 1, FR_BYTE_SIZE + U64_BYTE_SIZE), 1)

IndexCountPrefix(b) ==
    LET at == FR_BYTE_SIZE + U64_BYTE_SIZE + FR_BYTE_SIZE * ElementCountPrefix(b)
    IN from_bytes_le(SubSeq(b, at + 1, at + U64_BYTE_SIZE), 1)

WellFormedWitness(w) ==
    /\ Len(w.path_elements) = Len(w.identity_path_index)
    /\ \A i \in 1..Len(w.identity_path_index) : w.identity_path_index[i] \in {0, 1}

Decoded == dec # NoVal /\ dec.res.kind = "ok"

\* C14 (witness well-formedness), as claimed: every witness returned by
\* deserialize_witness or rln_witness_from_json has as many path elements as
\* path indices and every path index is 0 or 1; an input whose two length
\* prefixes disagree is reported as an error instead of producing a witness;
\* compute_tree_root is never run on paths of unequal length.
C14_DecodedWitnessWellFormed ==
    /\ Decoded => WellFormedWitness(dec.res.val)
    /\ (/\ dec # NoVal
        /\ dec.kind = "deserialize_witness"
        /\ ElementCountPrefix(dec.input) # IndexCountPrefix(dec.input))
           => dec.res.kind # "ok"
    /\ (Decoded /\ pv1 # NoVal) =>
           Len(dec.res.val.path_elements) = Len(dec.res.val.identity_path_index)

\* What does hold: the decoders copy what they are given.  The decoded
\* lengths are the two prefixes (the two array lengths), whatever they are,
\* and the root computation panics exactly when the elements are fewer than
\* the indices.
C14_DecodersDoNotValidate ==
    /\ (dec # NoVal /\ dec.kind = "deserialize_witness") =>
           /\ dec.res.kind = "ok"
           /\ Len(dec.res.val.path_elements) = ElementCountPrefix(dec.input)
           /\ Len(dec.res.val.identity_path_index) = IndexCountPrefix(dec.input)
    /\ (Decoded /\ dec.kind = "rln_witness_from_json") =>
           /\ Len(dec.res.val.path_elements) = Len(dec.input.path_elements)
           /\ Len(dec.res.val.identity_path_index)
                  = Len(dec.input.identity_path_index)
    /\ (Decoded /\ pv1 # NoVal) =>
           (pv1.kind = "panic" <=>
               Len(dec.res.val.path_elements)
                   < Len(dec.res.val.identity_path_index))

====
